---- MODULE Spec2Model ----
(***************************************************************************)
(* Model of beep.c: a command-line program that plays one of four named    *)
(* tone sequences.  main() dispatches on argv[1]; play_sequence() walks    *)
(* two parallel arrays; play_beep() emits one tone through the mechanism   *)
(* the build selected (#ifdef __APPLE__ / __linux__ / other).              *)
(*                                                                         *)
(* Strings are tuples of ASCII codes (the terminating NUL is implicit).    *)
(* C arrays are 0-based: frequencies[i] is freqs[i + 1] here.              *)
(***************************************************************************)
EXTENDS Integers, Sequences, FiniteSets, TLC

VARIABLES
    platform,     \* which #ifdef branch of play_beep the build compiled
    argv,         \* argument vector; argc is Len(argv), argv[0] is argv[1] here
    pc,           \* position of the single thread of control
    exitcode,     \* value returned by main, -1 while it has not returned
    freqs,        \* frequencies[] passed to play_sequence
    durs,         \* durations[] passed to play_sequence
    count,        \* count passed to play_sequence
    i,            \* loop index of play_sequence
    frequency,    \* parameter of the current play_beep call
    duration_ms,  \* parameter of the current play_beep call
    caller,       \* who called play_beep: "main" or "seq"
    tone,         \* console tone generator: "on" or "off"
    slept,        \* microseconds the current play_beep call has blocked
    buf,          \* stdio buffer of stdout (written, not yet flushed)
    out,          \* bytes that reached file descriptor 1
    log,          \* note-level events in order: beep calls, rests, pauses
    noteEv,       \* system-level events of the note being processed
    nStart,       \* start-tone ioctls that succeeded
    nFail,        \* start-tone ioctls that failed
    nStop,        \* stop-tone ioctls issued
    nBell         \* bell characters written by play_beep

vars == <<platform, argv, pc, exitcode, freqs, durs, count, i, frequency,
          duration_ms, caller, tone, slept, buf, out, log, noteEv,
          nStart, nFail, nStop, nBell>>

(***************************************************************************)
(* Bounds of the model.                                                    *)
(***************************************************************************)
MaxArgc == 3

(***************************************************************************)
(* Program constants.                                                      *)
(***************************************************************************)
PIT_TICK_RATE == 1193180
PauseUs == 50000
BEL == 7
NL == 10

Platforms == {"apple", "linux", "other"}

(***************************************************************************)
(* String literals of the program.                                         *)
(***************************************************************************)
StrClown == <<99, 108, 111, 119, 110>>
StrMario == <<109, 97, 114, 105, 111>>
StrDesperado == <<100, 101, 115, 112, 101, 114, 97, 100, 111>>
StrTest == <<116, 101, 115, 116>>

UsagePrefix == <<85, 115, 97, 103, 101, 58, 32>>
UsageSuffix == <<32, 60, 115, 111, 117, 110, 100, 95, 116, 121, 112, 101, 62, 10>>
SoundTypesLine ==
    <<83, 111, 117, 110, 100, 32, 116, 121, 112, 101, 115, 58, 32, 99, 108,
      111, 119, 110, 44, 32, 109, 97, 114, 105, 111, 44, 32, 100, 101, 115,
      112, 101, 114, 97, 100, 111, 44, 32, 116, 101, 115, 116, 10>>
UnknownPrefix ==
    <<85, 110, 107, 110, 111, 119, 110, 32, 115, 111, 117, 110, 100, 32, 116,
      121, 112, 101, 58, 32>>

(***************************************************************************)
(* Inputs: the program name, the first arguments tried, and what may       *)
(* follow them on the command line.                                        *)
(***************************************************************************)
ProgName == <<98, 101, 101, 112>>
SoundArgs ==
    { StrClown, StrMario, StrDesperado, StrTest,
      <<102, 111, 111>>,                       \* "foo"
      <<77, 97, 114, 105, 111>>,               \* "Mario"
      <<84, 69, 83, 84>>,                      \* "TEST"
      <<99, 108, 111, 119>>,                   \* "clow"
      <<99, 108, 111, 119, 110, 115>>,         \* "clowns"
      <<>> }                                   \* ""
ExtraArgs == { StrClown }                      \* "clown"

\* The argument vectors of length n; the program is started with its name
\* as argv[0], so n >= 1.
ArgVecs(n) ==
    IF n < 2 THEN { <<ProgName>> }
    ELSE { <<ProgName, s>> \o e : s \in SoundArgs, e \in [1..(n - 2) -> ExtraArgs] }

(***************************************************************************)
(* The song tables.                                                        *)
(***************************************************************************)
ClownFreqs ==
    <<523, 523, 523, 523, 523, 523, 523, 523,
      659, 659, 659, 659, 659, 659, 659, 659,
      523, 523, 523, 523, 523, 523, 523, 523,
      440, 440, 440, 440, 440, 440, 440, 440,
      523, 659, 784, 880, 784, 659, 523, 440>>
ClownDurations ==
    <<200, 200, 200, 200, 200, 200, 200, 200,
      200, 200, 200, 200, 200, 200, 200, 200,
      200, 200, 200, 200, 200, 200, 200, 200,
      200, 200, 200, 200, 200, 200, 200, 200,
      300, 300, 300, 400, 300, 300, 300, 400>>

MarioFreqs ==
    <<659, 659, 0, 659, 0, 523, 659, 0, 784, 0, 0, 0, 392, 0, 0, 0,
      523, 0, 392, 0, 330, 0, 440, 0, 494, 0, 466, 440, 0, 392, 659, 784,
      880, 0, 659, 523, 440, 0, 392, 0, 330, 0, 440, 0, 494, 0, 466, 440,
      392, 0, 659, 523, 440, 0, 392, 0, 330, 0, 440, 0, 494, 0, 466, 440>>
MarioDurations ==
    <<200, 200, 100, 200, 100, 200, 200, 100, 200, 100, 100, 100, 200, 100, 100, 100,
      200, 100, 200, 100, 200, 100, 200, 100, 200, 100, 200, 200, 100, 200, 200, 200,
      200, 100, 200, 200, 200, 100, 200, 100, 200, 100, 200, 100, 200, 100, 200, 200,
      200, 100, 200, 200, 200, 100, 200, 100, 200, 100, 200, 100, 200, 100, 200, 200>>

DesperadoFreqs ==
    <<523, 0, 659, 0, 784, 0, 659, 0, 523, 0, 440, 0, 392, 0, 440, 0,
      523, 0, 659, 0, 784, 0, 880, 0, 784, 0, 659, 0, 523, 0, 440, 0,
      392, 0, 440, 0, 523, 0, 659, 0, 523, 0, 440, 0, 392, 0, 330, 0,
      440, 0, 523, 0, 659, 0, 784, 0, 659, 0, 523, 0, 440, 0, 392, 0>>
DesperadoDurations ==
    <<400, 100, 400, 100, 400, 100, 400, 100, 400, 100, 400, 100, 400, 100, 400, 100,
      400, 100, 400, 100, 400, 100, 400, 100, 400, 100, 400, 100, 400, 100, 400, 100,
      400, 100, 400, 100, 400, 100, 400, 100, 400, 100, 400, 100, 400, 100, 400, 100,
      400, 100, 400, 100, 400, 100, 400, 100, 400, 100, 400, 100, 400, 100, 400, 100>>

(***************************************************************************)
(* Library functions, by what they compute.                                *)
(***************************************************************************)
\* The byte of a C string at 0-based offset k; the terminating NUL past the end.
CharAt(s, k) == IF k < Len(s) THEN s[k + 1] ELSE 0

\* strcmp: walk both strings until the bytes differ or both end.
RECURSIVE StrCmpFrom(_, _, _)
StrCmpFrom(a, b, k) ==
    IF CharAt(a, k) # CharAt(b, k) THEN CharAt(a, k) - CharAt(b, k)
    ELSE IF CharAt(a, k) = 0 THEN 0
    ELSE StrCmpFrom(a, b, k + 1)

\* Faulty variant: only the first strlen(a) bytes are compared, as
\* strncmp(a, b, strlen(a)) would.
RECURSIVE StrNCmpFrom(_, _, _, _)
StrNCmpFrom(a, b, k, n) ==
    IF k >= n THEN 0
    ELSE IF CharAt(a, k) # CharAt(b, k) THEN CharAt(a, k) - CharAt(b, k)
    ELSE IF CharAt(a, k) = 0 THEN 0
    ELSE StrNCmpFrom(a, b, k + 1, n)

strcmpPrefix(a, b) == StrNCmpFrom(a, b, 0, Len(a))

strcmp(a, b) == StrCmpFrom(a, b, 0)

\* Bitwise or of two non-negative integers.
RECURSIVE BitOr(_, _)
BitOr(a, b) ==
    IF a = 0 THEN b
    ELSE IF b = 0 THEN a
    ELSE (IF a % 2 = 1 \/ b % 2 = 1 THEN 1 ELSE 0) + 2 * BitOr(a \div 2, b \div 2)

\* x << 16 on a 32-bit int: defined by C only while the result fits, that is
\* for 0 <= x < 32768, where it is the product below.
Shl16(x) == x * 65536

\* n / d on ints.  Division by zero is undefined: the build either traps
\* (SIGFPE, shown as -1) or yields a meaningless quotient (shown as 0).
IntDiv(n, d) == IF d = 0 THEN {-1, 0} ELSE {n \div d}

\* The third argument of the start-tone ioctl, given the quotient.
ToneArg(f, q) == BitOr(Shl16(f), q)

\* printf("Usage: %s <sound_type>\n", argv[0]); printf("Sound types: ...\n");
UsageText(prog) == UsagePrefix \o prog \o UsageSuffix \o SoundTypesLine

\* printf("Unknown sound type: %s\n", sound_type);
UnknownText(name) == UnknownPrefix \o name \o <<NL>>

\* One event record: what happened and its two operands.
Ev(op, a, b) == <<op, a, b>>


(***************************************************************************)
(* Initial state: a build, and a command line.                             *)
(***************************************************************************)
Init ==
    /\ platform \in Platforms
    /\ argv \in UNION { ArgVecs(n) : n \in 1..MaxArgc }
    /\ pc = "main"
    /\ exitcode = -1
    /\ freqs = <<>>
    /\ durs = <<>>
    /\ count = 0
    /\ i = 0
    /\ frequency = 0
    /\ duration_ms = 0
    /\ caller = "none"
    /\ tone = "off"
    /\ slept = 0
    /\ buf = <<>>
    /\ out = <<>>
    /\ log = <<>>
    /\ noteEv = <<>>
    /\ nStart = 0
    /\ nFail = 0
    /\ nStop = 0
    /\ nBell = 0

argc == Len(argv)

(***************************************************************************)
(* main                                                                    *)
(***************************************************************************)
\* Faulty variant: the usage branch returns 0.
MainUsageReturnsZero ==
    /\ pc = "main"
    /\ argc < 2
    /\ buf' = buf \o UsageText(argv[1])
    /\ exitcode' = 0
    /\ pc' = "exit"
    /\ UNCHANGED <<platform, argv, freqs, durs, count, i, frequency, duration_ms,
                   caller, tone, slept, out, log, noteEv, nStart, nFail, nStop, nBell>>

\* if (argc < 2) { printf(usage); printf(sound types); return 1; }
MainUsage ==
    /\ pc = "main"
    /\ argc < 2
    /\ buf' = buf \o UsageText(argv[1])
    /\ exitcode' = 1
    /\ pc' = "exit"
    /\ UNCHANGED <<platform, argv, freqs, durs, count, i, frequency, duration_ms,
                   caller, tone, slept, out, log, noteEv, nStart, nFail, nStop, nBell>>

\* Faulty variant: the two arguments of the "test" call exchanged.
TestCallSwapped == [f |-> 300, d |-> 800]

\* The arguments of the play_beep call of the "test" branch.
TestCall == [f |-> 800, d |-> 300]

\* The if / else-if chain on sound_type: which branch runs, with the arrays
\* and the count it hands to play_sequence.
Branch(sound_type) ==
    IF strcmp(sound_type, StrClown) = 0
    THEN [kind |-> "seq", f |-> ClownFreqs, d |-> ClownDurations, n |-> 40]
    ELSE IF strcmp(sound_type, StrMario) = 0
    THEN [kind |-> "seq", f |-> MarioFreqs, d |-> MarioDurations, n |-> 64]
    ELSE IF strcmp(sound_type, StrDesperado) = 0
    THEN [kind |-> "seq", f |-> DesperadoFreqs, d |-> DesperadoDurations, n |-> 64]
    ELSE IF strcmp(sound_type, StrTest) = 0
    THEN [kind |-> "beep", f |-> <<>>, d |-> <<>>, n |-> 0]
    ELSE [kind |-> "unknown", f |-> <<>>, d |-> <<>>, n |-> 0]

\* char *sound_type = argv[1]; then the branch taken: a call of play_sequence,
\* a call of play_beep, or the error message and return 1.
MainDispatch ==
    /\ pc = "main"
    /\ ~(argc < 2)
    /\ LET sound_type == argv[2]
           b == Branch(sound_type)
       IN  CASE b.kind = "seq" ->
                  /\ freqs' = b.f
                  /\ durs' = b.d
                  /\ count' = b.n
                  /\ i' = 0
                  /\ pc' = "seq"
                  /\ UNCHANGED <<frequency, duration_ms, caller, buf, exitcode>>
             [] b.kind = "beep" ->
                  /\ frequency' = TestCall.f
                  /\ duration_ms' = TestCall.d
                  /\ caller' = "main"
                  /\ pc' = "beep"
                  /\ UNCHANGED <<freqs, durs, count, i, buf, exitcode>>
             [] OTHER ->
                  /\ buf' = buf \o UnknownText(sound_type)
                  /\ exitcode' = 1
                  /\ pc' = "exit"
                  /\ UNCHANGED <<freqs, durs, count, i, frequency, duration_ms, caller>>
    /\ UNCHANGED <<platform, argv, tone, slept, out, log, noteEv,
                   nStart, nFail, nStop, nBell>>

\* return 0; after the branch that played something.
MainReturn ==
    /\ pc = "main_ret"
    /\ exitcode' = 0
    /\ pc' = "exit"
    /\ UNCHANGED <<platform, argv, freqs, durs, count, i, frequency, duration_ms,
                   caller, tone, slept, buf, out, log, noteEv, nStart, nFail,
                   nStop, nBell>>

\* Returning from main ends the process: stdio flushes what stdout still buffers.
Exit ==
    /\ pc = "exit"
    /\ out' = out \o buf
    /\ buf' = <<>>
    /\ pc' = "done"
    /\ UNCHANGED <<platform, argv, exitcode, freqs, durs, count, i, frequency,
                   duration_ms, caller, tone, slept, log, noteEv, nStart, nFail,
                   nStop, nBell>>

(***************************************************************************)
(* play_sequence                                                           *)
(***************************************************************************)
\* Faulty variant: the rest test never recognises a zero frequency.
IsRestNegative == freqs[i + 1] < 0

\* frequencies[i] == 0
IsRest == freqs[i + 1] = 0

\* Faulty variant: the rest sleeps durations[i] microseconds.
RestUsUnscaled == durs[i + 1]

\* The argument of the usleep of a rest.
RestUs == durs[i + 1] * 1000

\* Faulty variant: every tone gets the duration of the first note.
SeqBeepArgsFirstDuration == [f |-> freqs[i + 1], d |-> durs[1]]

\* The arguments of play_beep(frequencies[i], durations[i]).
SeqBeepArgs == [f |-> freqs[i + 1], d |-> durs[i + 1]]

\* Faulty variant: the pause also follows the last note.
PauseDueAfterLast == i < count

\* i < count - 1
PauseDue == i < count - 1

\* Loop head with i < count: the note at i is a rest (sleep) or a tone (call).
PlaySequenceNote ==
    /\ pc = "seq"
    /\ i < count
    /\ IF IsRest
       THEN /\ log' = Append(log, Ev("rest", freqs[i + 1], RestUs))
            /\ noteEv' = <<Ev("usleep", RestUs, 0)>>
            /\ pc' = "seq_gap"
            /\ UNCHANGED <<frequency, duration_ms, caller>>
       ELSE /\ frequency' = SeqBeepArgs.f
            /\ duration_ms' = SeqBeepArgs.d
            /\ caller' = "seq"
            /\ noteEv' = <<>>
            /\ pc' = "beep"
            /\ UNCHANGED log
    /\ UNCHANGED <<platform, argv, exitcode, freqs, durs, count, i, tone, slept,
                   buf, out, nStart, nFail, nStop, nBell>>

\* After the note: if (i < count - 1) usleep(50000); then i++.
PlaySequencePause ==
    /\ pc = "seq_gap"
    /\ log' = IF PauseDue THEN Append(log, Ev("pause", 0, PauseUs)) ELSE log
    /\ i' = i + 1
    /\ pc' = "seq"
    /\ UNCHANGED <<platform, argv, exitcode, freqs, durs, count, frequency,
                   duration_ms, caller, tone, slept, buf, out, noteEv, nStart,
                   nFail, nStop, nBell>>

\* Loop head with i >= count: play_sequence returns to main.
PlaySequenceReturn ==
    /\ pc = "seq"
    /\ ~(i < count)
    /\ pc' = "main_ret"
    /\ UNCHANGED <<platform, argv, exitcode, freqs, durs, count, i, frequency,
                   duration_ms, caller, tone, slept, buf, out, log, noteEv,
                   nStart, nFail, nStop, nBell>>

(***************************************************************************)
(* play_beep                                                               *)
(***************************************************************************)
\* Entry of play_beep, recorded with the arguments it received.
Called == Ev("call", frequency, duration_ms)

\* __APPLE__: AudioServicesPlaySystemSound(alert); the call does not wait.
PlayBeepApple ==
    /\ pc = "beep"
    /\ platform = "apple"
    /\ log' = Append(log, Ev("beep", frequency, duration_ms))
    /\ noteEv' = noteEv \o <<Called, Ev("alert", 0, 0)>>
    /\ slept' = 0
    /\ pc' = "beep_ret"
    /\ UNCHANGED <<platform, argv, exitcode, freqs, durs, count, i, frequency,
                   duration_ms, caller, tone, buf, out, nStart, nFail, nStop, nBell>>

\* __linux__: the start-tone ioctl, which the console accepts (0) or refuses (-1).
PlayBeepLinux ==
    /\ pc = "beep"
    /\ platform = "linux"
    /\ log' = Append(log, Ev("beep", frequency, duration_ms))
    /\ slept' = 0
    /\ \E q \in IntDiv(PIT_TICK_RATE, frequency) : \E r \in {0, -1} :
         IF q < 0
         THEN /\ pc' = "killed"
              /\ noteEv' = Append(noteEv, Called)
              /\ UNCHANGED <<tone, nStart, nFail>>
         ELSE /\ noteEv' = noteEv \o <<Called, Ev("ioctl", ToneArg(frequency, q), r)>>
              /\ IF r = 0
                 THEN /\ tone' = "on"
                      /\ nStart' = nStart + 1
                      /\ pc' = "tone_sleep"
                      /\ UNCHANGED nFail
                 ELSE /\ nFail' = nFail + 1
                      /\ pc' = "bell"
                      /\ UNCHANGED <<tone, nStart>>
    /\ UNCHANGED <<platform, argv, exitcode, freqs, durs, count, i, frequency,
                   duration_ms, caller, buf, out, nStop, nBell>>

\* Neither: straight to the terminal bell.
PlayBeepOther ==
    /\ pc = "beep"
    /\ platform = "other"
    /\ log' = Append(log, Ev("beep", frequency, duration_ms))
    /\ noteEv' = Append(noteEv, Called)
    /\ slept' = 0
    /\ pc' = "bell"
    /\ UNCHANGED <<platform, argv, exitcode, freqs, durs, count, i, frequency,
                   duration_ms, caller, tone, buf, out, nStart, nFail, nStop, nBell>>

\* usleep(duration_ms * 1000) while the tone sounds.
ToneSleep ==
    /\ pc = "tone_sleep"
    /\ slept' = slept + duration_ms * 1000
    /\ noteEv' = Append(noteEv, Ev("usleep", duration_ms * 1000, 0))
    /\ pc' = "tone_stop"
    /\ UNCHANGED <<platform, argv, exitcode, freqs, durs, count, i, frequency,
                   duration_ms, caller, tone, buf, out, log, nStart, nFail, nStop,
                   nBell>>

\* Faulty variant: play_beep returns without the stop ioctl.
ToneStopMissing ==
    /\ pc = "tone_stop"
    /\ pc' = "beep_ret"
    /\ UNCHANGED <<platform, argv, exitcode, freqs, durs, count, i, frequency,
                   duration_ms, caller, tone, slept, buf, out, log, noteEv,
                   nStart, nFail, nStop, nBell>>

\* ioctl(STDOUT_FILENO, KDMKTONE, 0): stop the tone.
ToneStop ==
    /\ pc = "tone_stop"
    /\ tone' = "off"
    /\ nStop' = nStop + 1
    /\ noteEv' = Append(noteEv, Ev("ioctl", 0, 0))
    /\ pc' = "beep_ret"
    /\ UNCHANGED <<platform, argv, exitcode, freqs, durs, count, i, frequency,
                   duration_ms, caller, slept, buf, out, log, nStart, nFail, nBell>>

\* Faulty variant: the bell is written but not flushed.
PlayBeepBellNoFlush ==
    /\ pc = "bell"
    /\ buf' = buf \o <<BEL>>
    /\ nBell' = nBell + 1
    /\ noteEv' = Append(noteEv, Ev("bell", BEL, 0))
    /\ pc' = "beep_ret"
    /\ UNCHANGED <<platform, argv, exitcode, freqs, durs, count, i, frequency,
                   duration_ms, caller, tone, slept, out, log, nStart, nFail, nStop>>

\* printf("\a"); fflush(stdout);
PlayBeepBell ==
    /\ pc = "bell"
    /\ out' = out \o buf \o <<BEL>>
    /\ buf' = <<>>
    /\ nBell' = nBell + 1
    /\ noteEv' = noteEv \o <<Ev("bell", BEL, 0), Ev("fflush", 0, 0)>>
    /\ pc' = "beep_ret"
    /\ UNCHANGED <<platform, argv, exitcode, freqs, durs, count, i, frequency,
                   duration_ms, caller, tone, slept, log, nStart, nFail, nStop>>

\* play_beep returns to its caller.
PlayBeepReturn ==
    /\ pc = "beep_ret"
    /\ pc' = IF caller = "main" THEN "main_ret" ELSE "seq_gap"
    /\ UNCHANGED <<platform, argv, exitcode, freqs, durs, count, i, frequency,
                   duration_ms, caller, tone, slept, buf, out, log, noteEv,
                   nStart, nFail, nStop, nBell>>

Next ==
    \/ MainUsage
    \/ MainDispatch
    \/ MainReturn
    \/ Exit
    \/ PlaySequenceNote
    \/ PlaySequencePause
    \/ PlaySequenceReturn
    \/ PlayBeepApple
    \/ PlayBeepLinux
    \/ PlayBeepOther
    \/ ToneSleep
    \/ ToneStop
    \/ PlayBeepBell
    \/ PlayBeepReturn

Spec == Init /\ [][Next]_vars


(***************************************************************************)
(* Vocabulary of the properties.                                           *)
(***************************************************************************)
KnownNames == {StrClown, StrMario, StrDesperado, StrTest}
SongNames == {StrClown, StrMario, StrDesperado}

HasArg == argc >= 2
Arg1Is(name) == HasArg /\ argv[2] = name

IsNoteEv(e) == e[1] \in {"beep", "rest"}
IsPauseEv(e) == e[1] = "pause"
IsCallEv(e) == e[1] = "call"
IsBellEv(e) == e[1] = "bell"

\* The note events of the run so far, pauses left out.
NoteLog == SelectSeq(log, IsNoteEv)

\* What note k (1-based) of a table must show up as: a rest that sleeps its
\* duration, or one play_beep call with the table's frequency and duration.
Expected(F, D, k) ==
    IF F[k] = 0 THEN Ev("rest", 0, D[k] * 1000) ELSE Ev("beep", F[k], D[k])

\* The note events so far are the first notes of the table, in table order.
InTableOrder(F, D) ==
    LET nl == NoteLog
    IN  /\ Len(nl) <= Len(F)
        /\ \A k \in 1..Len(nl) : nl[k] = Expected(F, D, k)

\* main has returned (or is about to flush and end).
Returned == pc \in {"exit", "done"}

\* s occurs in t as a contiguous run of bytes.
Contains(t, s) ==
    \E k \in 0..(Len(t) - Len(s)) : SubSeq(t, k + 1, k + Len(s)) = s

\* Nothing audible or timed has happened.
Silent ==
    /\ log = <<>>
    /\ noteEv = <<>>
    /\ nStart = 0 /\ nFail = 0 /\ nStop = 0 /\ nBell = 0
    /\ tone = "off"
    /\ \A k \in 1..Len(out) : out[k] # BEL
    /\ \A k \in 1..Len(buf) : buf[k] # BEL

(***************************************************************************)
(* C1.  Invoked with "test", the program makes exactly one tone-emission   *)
(* call, play_beep(800, 300), never a rest sleep or a 50 ms pause, and     *)
(* returns 0.                                                              *)
(***************************************************************************)
C1_TestOneBeep ==
    Arg1Is(StrTest) =>
        /\ Len(log) <= 1
        /\ \A k \in 1..Len(log) : log[k] = Ev("beep", 800, 300)
        /\ Len(SelectSeq(noteEv, IsCallEv)) = Len(log)
        /\ Returned => (exitcode = 0 /\ Len(log) = 1)

C1_Witness ==
    /\ Arg1Is(StrTest)
    /\ pc = "done"
    /\ exitcode = 0
    /\ log = <<Ev("beep", 800, 300)>>

(***************************************************************************)
(* C2.  Invoked with "clown", the program returns 0 after exactly 40 note  *)
(* events; the k-th carries the k-th frequency and duration of the clown   *)
(* table, none skipped, repeated or reordered.                             *)
(***************************************************************************)
C2_ClownFortyInOrder ==
    Arg1Is(StrClown) =>
        /\ InTableOrder(ClownFreqs, ClownDurations)
        /\ Len(NoteLog) <= 40
        /\ Returned => (exitcode = 0 /\ Len(NoteLog) = 40)

C2_Witness ==
    /\ Arg1Is(StrClown)
    /\ pc = "done"
    /\ Len(NoteLog) = 40
    /\ NoteLog[36] = Ev("beep", 880, 400)

(***************************************************************************)
(* C3.  In a playback of n notes the log alternates note, pause, note, ... *)
(* with every pause 50 ms long; once play_sequence has returned there are  *)
(* exactly n - 1 pauses and the last event is the final note.              *)
(***************************************************************************)
C3_PauseBetweenNotes ==
    (HasArg /\ argv[2] \in SongNames) =>
        /\ \A k \in 1..Len(log) :
              IF k % 2 = 1 THEN IsNoteEv(log[k])
              ELSE log[k] = Ev("pause", 0, 50000)
        /\ pc \in {"main_ret", "exit", "done"} =>
              /\ Len(log) = 2 * count - 1
              /\ Len(SelectSeq(log, IsPauseEv)) = count - 1
              /\ IsNoteEv(log[Len(log)])
        /\ pc = "seq_gap" => IsNoteEv(log[Len(log)])
        /\ (pc = "seq" /\ i > 0 /\ i < count) => IsPauseEv(log[Len(log)])

C3_Witness ==
    /\ Arg1Is(StrDesperado)
    /\ pc = "done"
    /\ Len(log) = 127
    /\ log[127] = Ev("rest", 0, 100000)
    /\ log[126] = Ev("pause", 0, 50000)

(***************************************************************************)
(* C4.  A note of frequency 0 makes no play_beep call, no ioctl and no     *)
(* bell write: its only system event is one usleep of durations[i] ms.  A  *)
(* note of non-zero frequency makes exactly one play_beep call and no rest *)
(* sleep.                                                                  *)
(***************************************************************************)
C4_RestOnlySleeps ==
    /\ pc = "seq_gap" =>
          IF freqs[i + 1] = 0
          THEN /\ noteEv = <<Ev("usleep", durs[i + 1] * 1000, 0)>>
               /\ log[Len(log)] = Ev("rest", 0, durs[i + 1] * 1000)
          ELSE /\ Len(SelectSeq(noteEv, IsCallEv)) = 1
               /\ noteEv[1] = Ev("call", freqs[i + 1], durs[i + 1])
               /\ log[Len(log)] = Ev("beep", freqs[i + 1], durs[i + 1])
    /\ (caller # "main" /\ pc \in {"seq", "seq_gap", "main_ret", "exit", "done"}) =>
          LET nl == NoteLog
          IN  \A k \in 1..Len(nl) :
                  /\ k <= Len(freqs)
                  /\ (freqs[k] = 0) <=> (nl[k][1] = "rest")
    /\ LET beeps == Len(SelectSeq(log, LAMBDA e : e[1] = "beep"))
       IN  /\ nStart + nFail <= beeps
           /\ nBell <= beeps
           /\ nStop <= nStart

C4_Witness ==
    /\ Arg1Is(StrMario)
    /\ pc = "seq_gap"
    /\ i = 2
    /\ freqs[i + 1] = 0
    /\ noteEv = <<Ev("usleep", 100000, 0)>>
    /\ platform = "linux"
    /\ nFail = 1 /\ nStart = 1

(***************************************************************************)
(* C5.  Every play_beep call returns only after it has blocked for         *)
(* duration_ms milliseconds, in every variant.                             *)
(***************************************************************************)
C5_BlocksForDuration ==
    pc = "beep_ret" => slept = duration_ms * 1000

(***************************************************************************)
(* C6.  Invoked without arguments, the program prints the usage text and   *)
(* returns 1, and nothing audible or timed happens.                        *)
(***************************************************************************)
C6_NoArgUsage ==
    argc < 2 =>
        /\ Silent
        /\ pc \in {"main", "exit", "done"}
        /\ Returned => exitcode = 1
        /\ pc = "done" =>
              /\ out = UsagePrefix \o argv[1] \o UsageSuffix \o SoundTypesLine
              /\ buf = <<>>

C6_Witness ==
    /\ argc < 2
    /\ pc = "done"
    /\ exitcode = 1
    /\ Contains(out, UsagePrefix)
    /\ Contains(out, SoundTypesLine)

(***************************************************************************)
(* C7.  A first argument that is not exactly "clown", "mario", "desperado" *)
(* or "test" gets an error message containing it, exit code 1, and no tone,*)
(* bell or sleep; each of the four names gets exit code 0.                 *)
(***************************************************************************)
C7_ExactMatch ==
    HasArg =>
        IF argv[2] \in KnownNames
        THEN Returned => exitcode = 0
        ELSE /\ Silent
             /\ pc \in {"main", "exit", "done"}
             /\ Returned => exitcode = 1
             /\ pc = "done" =>
                   /\ Contains(out, UnknownPrefix)
                   /\ Contains(out, argv[2])
                   /\ out = UnknownPrefix \o argv[2] \o <<10>>

C7_Witness ==
    /\ Arg1Is(<<99, 108, 111, 119>>)
    /\ pc = "done"
    /\ exitcode = 1
    /\ Contains(out, <<99, 108, 111, 119>>)

(***************************************************************************)
(* C8.  Whatever start-tone ioctls fail, a known song is played through in *)
(* table order and main returns 0; every failed attempt has written and    *)
(* flushed exactly one bell, every successful one none; and the run never  *)
(* stops short of the end.                                                 *)
(***************************************************************************)
SongTable ==
    IF Arg1Is(StrClown) THEN [f |-> ClownFreqs, d |-> ClownDurations]
    ELSE IF Arg1Is(StrMario) THEN [f |-> MarioFreqs, d |-> MarioDurations]
    ELSE [f |-> DesperadoFreqs, d |-> DesperadoDurations]

C8_FailuresNeverSurface ==
    (HasArg /\ argv[2] \in KnownNames) =>
        /\ pc # "killed"
        /\ pc # "done" => ENABLED Next
        /\ i <= count
        /\ argv[2] \in SongNames =>
              LET t == SongTable
              IN  /\ InTableOrder(t.f, t.d)
                  /\ Returned => Len(NoteLog) = Len(t.f)
        /\ Returned => exitcode = 0
        /\ platform = "linux" =>
              /\ nBell = nFail - (IF pc = "bell" THEN 1 ELSE 0)
              /\ out = [k \in 1..nBell |-> BEL]
              /\ pc # "exit" => buf = <<>>
              /\ pc = "beep_ret" =>
                    IF noteEv[2][3] = 0
                    THEN SelectSeq(noteEv, IsBellEv) = <<>>
                    ELSE SubSeq(noteEv, 3, Len(noteEv)) =
                            <<Ev("bell", BEL, 0), Ev("fflush", 0, 0)>>

C8_Witness ==
    /\ Arg1Is(StrMario)
    /\ platform = "linux"
    /\ pc = "done"
    /\ exitcode = 0
    /\ nFail = 5
    /\ nStart > 5
    /\ nStart + nFail = Len(SelectSeq(log, LAMBDA e : e[1] = "beep"))
    /\ out = <<BEL, BEL, BEL, BEL, BEL>>
    /\ Len(NoteLog) = 64

(***************************************************************************)
(* C9.  Every play_beep call has frequency > 0 and duration_ms > 0, so the *)
(* division 1193180 / frequency never divides by zero and frequency << 16  *)
(* fits a 32-bit int.                                                      *)
(***************************************************************************)
C9_PositiveArguments ==
    /\ pc # "killed"
    /\ pc \in {"beep", "tone_sleep", "tone_stop", "bell", "beep_ret"} =>
          /\ frequency > 0
          /\ duration_ms > 0
          /\ frequency < 32768
          /\ frequency * 65536 <= 2147483647
    /\ \A k \in 1..Len(noteEv) :
          IsCallEv(noteEv[k]) => (noteEv[k][2] > 0 /\ noteEv[k][3] > 0)

C9_Witness ==
    /\ pc = "beep"
    /\ caller = "seq"
    /\ i > 0
    /\ freqs[i] = 0
    /\ frequency = 659
    /\ duration_ms = 200

(***************************************************************************)
(* C10.  A tone that was started is followed by the sleep of duration_ms   *)
(* and then the stop ioctl, before play_beep returns; no tone sounds       *)
(* during a pause or a rest, when the next note starts, or at exit.        *)
(***************************************************************************)
C10_ToneAlwaysStopped ==
    /\ tone = "on" => pc \in {"tone_sleep", "tone_stop"}
    /\ nStop = nStart - (IF pc \in {"tone_sleep", "tone_stop"} THEN 1 ELSE 0)
    /\ (pc = "beep_ret" /\ platform = "linux" /\ noteEv[2][3] = 0) =>
          /\ Len(noteEv) = 4
          /\ noteEv[2][1] = "ioctl" /\ noteEv[2][2] # 0
          /\ noteEv[3] = Ev("usleep", duration_ms * 1000, 0)
          /\ noteEv[4] = Ev("ioctl", 0, 0)

C10_Witness ==
    /\ pc = "beep_ret"
    /\ platform = "linux"
    /\ caller = "seq"
    /\ noteEv[2][3] = 0
    /\ tone = "off"
    /\ nStop = 3

====
